---- MODULE Spec2Model ----
(***************************************************************************)
(* Model of the POS backend's tax engine (backend/app/utils/tax_engine.py). *)
(*                                                                         *)
(* Python Decimal values are modelled as exact rationals in lowest terms,  *)
(* [n |-> numerator, d |-> denominator > 0], so that Decimal's numeric     *)
(* equality is record equality.  Every Decimal operation of the engine is  *)
(* exact at the magnitudes modelled except the division of the inclusive   *)
(* branch, whose 28-digit quotient is quantized to 2 places right away; a  *)
(* quotient k/(100+rate) that is not exactly a tie is further from a tie   *)
(* than 28 digits can blur, so the exact quotient rounds the same way.     *)
(***************************************************************************)
EXTENDS Integers, Sequences, FiniteSets, TLC

VARIABLES
    call,        \* the last calculate_line_item invocation: arguments and outcome
    twin,        \* <<the exclusive invocation>> that `call` re-expresses inclusive, else <<>>
    line_items,  \* line_item_results of the bill being built (List[LineItemTaxResult])
    bill,        \* the last generate_bill_summary invocation: arguments and outcome
    log,         \* the engine's invocations of one process, in order: arguments and outcome
    wrapper,     \* one call of a function wrapped by handle_database_error
    tax_groups,  \* table tax_groups: id -> row
    products,    \* table products: id -> row
    bills,       \* table bills: rows in insertion order, a bill's id is its position
    bill_items,  \* table bill_items: rows in insertion order
    request,     \* the last BillingService.create_bill call: items and outcome
    response,    \* the last BillingService.get_bill call: bill_id and outcome
    businesses,  \* table businesses: the ids of its rows
    users,       \* the row of the onboarding user in table users
    attempts,    \* the runs of complete_onboarding in the current wrapped call
    ledger,      \* table inventory_ledger: rows in insertion order
    movements    \* the add_stock and deduct_stock calls made: arguments and outcome

\* The state of the parts of the backend other than the tax engine called alone
\* The tables and calls of the billing service
billing == <<tax_groups, products, bills, bill_items, request, response>>

\* The tables and runs of the onboarding service
onboarding_state == <<businesses, users, attempts>>

\* The ledger and calls of the inventory service
inventory == <<ledger, movements>>

\* The state of the services built on the database
services == <<billing, onboarding_state, inventory>>

others == <<log, wrapper, services>>

\* The tax engine and the retry wrapper, which the services leave alone
engine == <<call, twin, line_items, bill, log, wrapper>>

vars == <<call, twin, line_items, bill, others>>

---------------------------------------------------------------------------
(* Bounds *)

MaxQuantity == 4
MaxItemQuantity == 2
MaxLines == 2
MaxCalls == 3
MaxBills == 1
MaxBillItems == 2
MaxBusinesses == 2
MaxStock == 2
MaxMovements == 2

---------------------------------------------------------------------------
(* Decimal arithmetic *)

Abs(x) == IF x < 0 THEN -x ELSE x

RECURSIVE GCD(_, _)
GCD(a, b) == IF b = 0 THEN a ELSE GCD(b, a % b)

\* The Decimal of value n/d (d # 0), in lowest terms with a positive denominator.
Dec(n, d) ==
    LET g == GCD(Abs(n), Abs(d))
        s == IF d < 0 THEN -1 ELSE 1
    IN  [n |-> (s * n) \div g, d |-> (s * d) \div g]

D(i) == [n |-> i, d |-> 1]

Zero == D(0)

DAdd(a, b) == Dec(a.n * b.d + b.n * a.d, a.d * b.d)
DSub(a, b) == Dec(a.n * b.d - b.n * a.d, a.d * b.d)
DMul(a, b) == Dec(a.n * b.n, a.d * b.d)
\* a / b, for b # 0 (Decimal raises DivisionByZero or InvalidOperation on b = 0)
DDiv(a, b) == Dec(a.n * b.d, a.d * b.n)
DLt(a, b) == a.n * b.d < b.n * a.d
DAbs(a) == [n |-> Abs(a.n), d |-> a.d]

\* n/d (d > 0) rounded to the nearest integer, ties away from zero (ROUND_HALF_UP)
RoundHalfUp(n, d) ==
    IF n >= 0 THEN (2 * n + d) \div (2 * d)
    ELSE -((2 * (-n) + d) \div (2 * d))

\* value.quantize(Decimal('0.01'), rounding=ROUND_HALF_UP)
_round_currency(value) == Dec(RoundHalfUp(value.n * 100, value.d), 100)

---------------------------------------------------------------------------
(* Outcomes of a call: a returned value or a raised exception *)

Return(v) == [raised |-> FALSE, value |-> v]
Raise(e, m) == [raised |-> TRUE, exc |-> e, msg |-> m]

\* `name = value`: the value is computed once and Body is what follows with the name bound
Bind(value, Body(_)) == CHOOSE result \in {Body(name) : name \in {value}} : TRUE

---------------------------------------------------------------------------
(* TaxEngine._split_tax *)

_split_tax_independent_halves(tax_amount, split_type) ==
    IF split_type = "GST_50_50"
    THEN LET half == DDiv(tax_amount, D(2))
         IN  <<_round_currency(half), _round_currency(half)>>
    ELSE <<tax_amount, Zero>>

_split_tax_always_halves(tax_amount, split_type) ==
    LET half == DDiv(tax_amount, D(2))
        cgst == _round_currency(half)
        sgst == DSub(tax_amount, cgst)
    IN  <<cgst, sgst>>

_split_tax_truncated_half(tax_amount, split_type) ==
    IF split_type = "GST_50_50"
    THEN LET half == DDiv(tax_amount, D(2))
             cgst == Dec((half.n * 100) \div half.d, 100)
             sgst == DSub(tax_amount, cgst)
         IN  <<cgst, sgst>>
    ELSE <<tax_amount, Zero>>

_split_tax(tax_amount, split_type) ==
    IF split_type = "GST_50_50"
    THEN LET half == DDiv(tax_amount, D(2))
             cgst == _round_currency(half)
             sgst == DSub(tax_amount, cgst)
         IN  <<cgst, sgst>>
    ELSE <<tax_amount, Zero>>

---------------------------------------------------------------------------
(* TaxEngine.calculate_line_item *)

\* The message of the ValueError the argument checks raise, "" when they pass.
ValidationError_no_rate_check(quantity, tax_group) ==
    IF quantity <= 0 THEN "Quantity must be greater than 0"
    ELSE ""

ValidationError(quantity, tax_group) ==
    IF quantity <= 0 THEN "Quantity must be greater than 0"
    ELSE IF DLt(tax_group.total_rate, Zero) THEN "Tax rate cannot be negative"
    ELSE ""

\* tax_multiplier = Decimal('1') + (tax_group.total_rate / Decimal('100'))
TaxMultiplier(tax_group) == DAdd(D(1), DDiv(tax_group.total_rate, D(100)))

\* The inclusive branch: the price contains the tax, which is extracted.
\* unit_price is already rounded.
InclusivePricing_independent_tax(unit_price, quantity, tax_group) ==
    LET line_total == _round_currency(DMul(unit_price, D(quantity)))
    IN  IF tax_group.total_rate = Zero
        THEN [taxable_value |-> line_total, tax_amount |-> Zero, line_total |-> line_total]
        ELSE LET tax_multiplier == TaxMultiplier(tax_group)
                 taxable_value == _round_currency(DDiv(line_total, tax_multiplier))
                 tax_amount == _round_currency(
                     DSub(line_total, DDiv(line_total, tax_multiplier)))
             IN  [taxable_value |-> taxable_value,
                  tax_amount |-> tax_amount,
                  line_total |-> line_total]

InclusivePricing_multiplier_without_percent(unit_price, quantity, tax_group) ==
    LET line_total == _round_currency(DMul(unit_price, D(quantity)))
    IN  IF tax_group.total_rate = Zero
        THEN [taxable_value |-> line_total, tax_amount |-> Zero, line_total |-> line_total]
        ELSE LET tax_multiplier == DAdd(D(1), tax_group.total_rate)
                 taxable_value == _round_currency(DDiv(line_total, tax_multiplier))
                 tax_amount == _round_currency(DSub(line_total, taxable_value))
             IN  [taxable_value |-> taxable_value,
                  tax_amount |-> tax_amount,
                  line_total |-> line_total]

InclusivePricing_tax_from_rate(unit_price, quantity, tax_group) ==
    LET line_total == _round_currency(DMul(unit_price, D(quantity)))
    IN  IF tax_group.total_rate = Zero
        THEN [taxable_value |-> line_total, tax_amount |-> Zero, line_total |-> line_total]
        ELSE LET tax_multiplier == TaxMultiplier(tax_group)
                 taxable_value == _round_currency(DDiv(line_total, tax_multiplier))
                 tax_amount == _round_currency(
                     DMul(taxable_value, DDiv(tax_group.total_rate, D(100))))
             IN  [taxable_value |-> taxable_value,
                  tax_amount |-> tax_amount,
                  line_total |-> line_total]

InclusivePricing(unit_price, quantity, tax_group) ==
    LET line_total == _round_currency(DMul(unit_price, D(quantity)))
    IN  IF tax_group.total_rate = Zero
        THEN [taxable_value |-> line_total, tax_amount |-> Zero, line_total |-> line_total]
        ELSE LET tax_multiplier == TaxMultiplier(tax_group)
                 taxable_value == _round_currency(DDiv(line_total, tax_multiplier))
                 tax_amount == _round_currency(DSub(line_total, taxable_value))
             IN  [taxable_value |-> taxable_value,
                  tax_amount |-> tax_amount,
                  line_total |-> line_total]

\* The exclusive branch: the tax is added to the price.  unit_price is already rounded.
ExclusivePricing_rate_as_fraction(unit_price, quantity, tax_group) ==
    LET taxable_value == _round_currency(DMul(unit_price, D(quantity)))
    IN  IF tax_group.total_rate = Zero
        THEN [taxable_value |-> taxable_value, tax_amount |-> Zero,
              line_total |-> taxable_value]
        ELSE LET tax_amount == _round_currency(DMul(taxable_value, tax_group.total_rate))
             IN  [taxable_value |-> taxable_value,
                  tax_amount |-> tax_amount,
                  line_total |-> _round_currency(DAdd(taxable_value, tax_amount))]

ExclusivePricing_tax_per_unit(unit_price, quantity, tax_group) ==
    LET taxable_value == _round_currency(DMul(unit_price, D(quantity)))
    IN  IF tax_group.total_rate = Zero
        THEN [taxable_value |-> taxable_value, tax_amount |-> Zero,
              line_total |-> taxable_value]
        ELSE LET tax_amount == DMul(
                     _round_currency(DMul(unit_price, DDiv(tax_group.total_rate, D(100)))),
                     D(quantity))
             IN  [taxable_value |-> taxable_value,
                  tax_amount |-> tax_amount,
                  line_total |-> _round_currency(DAdd(taxable_value, tax_amount))]

ExclusivePricing(unit_price, quantity, tax_group) ==
    LET taxable_value == _round_currency(DMul(unit_price, D(quantity)))
    IN  IF tax_group.total_rate = Zero
        THEN [taxable_value |-> taxable_value, tax_amount |-> Zero,
              line_total |-> taxable_value]
        ELSE LET tax_amount == _round_currency(
                     DMul(taxable_value, DDiv(tax_group.total_rate, D(100))))
             IN  [taxable_value |-> taxable_value,
                  tax_amount |-> tax_amount,
                  line_total |-> _round_currency(DAdd(taxable_value, tax_amount))]

\* The line_total after the consistency step: recomputed only when the sum
\* is off by more than 0.01.
Reconcile(amounts) ==
    LET calculated_total == DAdd(amounts.taxable_value, amounts.tax_amount)
    IN  IF DLt(Dec(1, 100), DAbs(DSub(calculated_total, amounts.line_total)))
        THEN calculated_total
        ELSE amounts.line_total

\* An engine that keeps the tax group of its previous invocation and prices the
\* line with it.
calculate_line_item_remembering_tax_group(unit_price, quantity, tax_group) ==
    LET kept == IF log # <<>> /\ log[Len(log)].op = "calculate_line_item"
                THEN log[Len(log)].args.tax_group
                ELSE tax_group
    IN  IF ValidationError(quantity, kept) # ""
        THEN Raise("ValueError", ValidationError(quantity, kept))
        ELSE IF /\ kept.is_tax_inclusive
                /\ kept.total_rate # Zero
                /\ TaxMultiplier(kept) = Zero
        THEN Raise("DivisionByZero", "")
        ELSE LET price == _round_currency(unit_price)
                 amounts == IF kept.is_tax_inclusive
                            THEN InclusivePricing(price, quantity, kept)
                            ELSE ExclusivePricing(price, quantity, kept)
                 split == _split_tax(amounts.tax_amount, kept.split_type)
             IN  Return([taxable_value |-> amounts.taxable_value,
                         tax_amount |-> amounts.tax_amount,
                         cgst_amount |-> split[1],
                         sgst_amount |-> split[2],
                         line_total |-> _round_currency(Reconcile(amounts))])

calculate_line_item_unrounded_price(unit_price, quantity, tax_group) ==
    IF ValidationError(quantity, tax_group) # ""
    THEN Raise("ValueError", ValidationError(quantity, tax_group))
    ELSE IF /\ tax_group.is_tax_inclusive
            /\ tax_group.total_rate # Zero
            /\ TaxMultiplier(tax_group) = Zero
    THEN Raise("DivisionByZero", "")
    ELSE LET amounts == IF tax_group.is_tax_inclusive
                        THEN InclusivePricing(unit_price, quantity, tax_group)
                        ELSE ExclusivePricing(unit_price, quantity, tax_group)
             split == _split_tax(amounts.tax_amount, tax_group.split_type)
         IN  Return([taxable_value |-> amounts.taxable_value,
                     tax_amount |-> amounts.tax_amount,
                     cgst_amount |-> split[1],
                     sgst_amount |-> split[2],
                     line_total |-> _round_currency(Reconcile(amounts))])

calculate_line_item(unit_price, quantity, tax_group) ==
    IF ValidationError(quantity, tax_group) # ""
    THEN Raise("ValueError", ValidationError(quantity, tax_group))
    ELSE IF /\ tax_group.is_tax_inclusive
            /\ tax_group.total_rate # Zero
            /\ TaxMultiplier(tax_group) = Zero
    THEN Raise("DivisionByZero", "")
    ELSE LET price == _round_currency(unit_price)
             amounts == IF tax_group.is_tax_inclusive
                        THEN InclusivePricing(price, quantity, tax_group)
                        ELSE ExclusivePricing(price, quantity, tax_group)
             split == _split_tax(amounts.tax_amount, tax_group.split_type)
         IN  Return([taxable_value |-> amounts.taxable_value,
                     tax_amount |-> amounts.tax_amount,
                     cgst_amount |-> split[1],
                     sgst_amount |-> split[2],
                     line_total |-> _round_currency(Reconcile(amounts))])

---------------------------------------------------------------------------
(* TaxEngine.generate_bill_summary *)

RECURSIVE DSum(_)
\* sum(...) of a sequence of Decimals, starting from 0
DSum(s) == IF s = <<>> THEN Zero ELSE DAdd(DSum(SubSeq(s, 1, Len(s) - 1)), s[Len(s)])

ItemSubtotal_sum_of_line_totals(items) ==
    _round_currency(DSum([i \in 1 .. Len(items) |-> items[i].line_total]))

ItemSubtotal(items) ==
    _round_currency(DSum([i \in 1 .. Len(items) |-> items[i].taxable_value]))

ItemTax(items) ==
    _round_currency(DSum([i \in 1 .. Len(items) |-> items[i].tax_amount]))

ServiceChargeAmount_ignores_enabled(item_subtotal, service_charge_enabled, service_charge_rate) ==
    IF DLt(Zero, service_charge_rate)
    THEN _round_currency(DMul(item_subtotal, DDiv(service_charge_rate, D(100))))
    ELSE Zero

\* Step 2: the service charge on the item subtotal
ServiceChargeAmount(item_subtotal, service_charge_enabled, service_charge_rate) ==
    IF service_charge_enabled /\ DLt(Zero, service_charge_rate)
    THEN _round_currency(DMul(item_subtotal, DDiv(service_charge_rate, D(100))))
    ELSE Zero

NoServiceChargeGst == [tax_amount |-> Zero, cgst_amount |-> Zero, sgst_amount |-> Zero]

\* Step 3: the GST on the service charge.  service_charge_tax_group is <<>> for
\* None and <<config>> for a TaxGroupConfig.
ServiceChargeGst_untaxed_fallback(service_charge_amount, service_charge_tax_group) ==
    IF DLt(Zero, service_charge_amount)
    THEN IF service_charge_tax_group = <<>>
         THEN Return(NoServiceChargeGst)
         ELSE IF service_charge_tax_group[1].is_tax_inclusive
         THEN Raise("ValueError", "Service charge GST must be exclusive. SERVICE_CHARGE_GST tax group must have is_tax_inclusive=false")
         ELSE calculate_line_item(service_charge_amount, 1, service_charge_tax_group[1])
    ELSE Return(NoServiceChargeGst)

ServiceChargeGst_no_inclusive_check(service_charge_amount, service_charge_tax_group) ==
    IF DLt(Zero, service_charge_amount)
    THEN IF service_charge_tax_group = <<>>
         THEN Raise("ValueError", "Service charge tax group is required when service charge is enabled. SERVICE_CHARGE_GST tax group must be configured.")
         ELSE calculate_line_item(service_charge_amount, 1, service_charge_tax_group[1])
    ELSE Return(NoServiceChargeGst)

ServiceChargeGst_nonnegative_check(service_charge_amount, service_charge_tax_group) ==
    IF ~DLt(service_charge_amount, Zero)
    THEN IF service_charge_tax_group = <<>>
         THEN Raise("ValueError", "Service charge tax group is required when service charge is enabled. SERVICE_CHARGE_GST tax group must be configured.")
         ELSE IF service_charge_tax_group[1].is_tax_inclusive
         THEN Raise("ValueError", "Service charge GST must be exclusive. SERVICE_CHARGE_GST tax group must have is_tax_inclusive=false")
         ELSE calculate_line_item(service_charge_amount, 1, service_charge_tax_group[1])
    ELSE Return(NoServiceChargeGst)

ServiceChargeGst_skipped(service_charge_amount, service_charge_tax_group) ==
    IF DLt(Zero, service_charge_amount)
    THEN IF service_charge_tax_group = <<>>
         THEN Raise("ValueError", "Service charge tax group is required when service charge is enabled. SERVICE_CHARGE_GST tax group must be configured.")
         ELSE IF service_charge_tax_group[1].is_tax_inclusive
         THEN Raise("ValueError", "Service charge GST must be exclusive. SERVICE_CHARGE_GST tax group must have is_tax_inclusive=false")
         ELSE IF calculate_line_item(service_charge_amount, 1, service_charge_tax_group[1]).raised
         THEN calculate_line_item(service_charge_amount, 1, service_charge_tax_group[1])
         ELSE Return(NoServiceChargeGst)
    ELSE Return(NoServiceChargeGst)

ServiceChargeGst(service_charge_amount, service_charge_tax_group) ==
    IF DLt(Zero, service_charge_amount)
    THEN IF service_charge_tax_group = <<>>
         THEN Raise("ValueError", "Service charge tax group is required when service charge is enabled. SERVICE_CHARGE_GST tax group must be configured.")
         ELSE IF service_charge_tax_group[1].is_tax_inclusive
         THEN Raise("ValueError", "Service charge GST must be exclusive. SERVICE_CHARGE_GST tax group must have is_tax_inclusive=false")
         ELSE calculate_line_item(service_charge_amount, 1, service_charge_tax_group[1])
    ELSE Return(NoServiceChargeGst)

\* Step 5: total_cgst and total_sgst, re-derived from the total tax
BalancedSplit_independent_halves(total_tax) ==
    LET half == DDiv(total_tax, D(2))
    IN  <<_round_currency(half), _round_currency(half)>>

BalancedSplit_truncated_half(total_tax) ==
    LET half == DDiv(total_tax, D(2))
        total_cgst == Dec((half.n * 100) \div half.d, 100)
        total_sgst == DSub(total_tax, total_cgst)
    IN  <<total_cgst, total_sgst>>

BalancedSplit_whole_tax_as_cgst(total_tax) == <<total_tax, Zero>>

BalancedSplit(total_tax) ==
    LET half == DDiv(total_tax, D(2))
        total_cgst == _round_currency(half)
        total_sgst == DSub(total_tax, total_cgst)
    IN  <<total_cgst, total_sgst>>

\* Step 6: the bill total
TotalAmount_without_service_charge(item_subtotal, service_charge_amount, total_tax) ==
    _round_currency(DAdd(item_subtotal, total_tax))

TotalAmount(item_subtotal, service_charge_amount, total_tax) ==
    _round_currency(DAdd(DAdd(item_subtotal, service_charge_amount), total_tax))

\* Without the early return for an empty list, sum() of no Decimals is the int 0,
\* which has no quantize.
generate_bill_summary_no_empty_guard(items, service_charge_enabled, service_charge_rate, service_charge_tax_group) ==
    IF items = <<>>
    THEN Raise("AttributeError", "'int' object has no attribute 'quantize'")
    ELSE LET item_subtotal == ItemSubtotal(items)
             item_tax == ItemTax(items)
             service_charge_amount ==
                 ServiceChargeAmount(item_subtotal, service_charge_enabled,
                                     service_charge_rate)
             sc_tax_result == ServiceChargeGst(service_charge_amount,
                                               service_charge_tax_group)
         IN  IF sc_tax_result.raised
             THEN sc_tax_result
             ELSE LET total_tax ==
                          _round_currency(DAdd(item_tax, sc_tax_result.value.tax_amount))
                      split == BalancedSplit(total_tax)
                  IN  Return([subtotal |-> item_subtotal,
                              total_tax |-> total_tax,
                              total_cgst |-> split[1],
                              total_sgst |-> split[2],
                              total_amount |-> TotalAmount(item_subtotal,
                                                           service_charge_amount,
                                                           total_tax),
                              service_charge_amount |-> service_charge_amount])

generate_bill_summary(items, service_charge_enabled, service_charge_rate, service_charge_tax_group) ==
    IF items = <<>>
    THEN Return([subtotal |-> Zero, total_tax |-> Zero, total_cgst |-> Zero,
                 total_sgst |-> Zero, total_amount |-> Zero,
                 service_charge_amount |-> Zero])
    ELSE LET item_subtotal == ItemSubtotal(items)
             item_tax == ItemTax(items)
             service_charge_amount ==
                 ServiceChargeAmount(item_subtotal, service_charge_enabled,
                                     service_charge_rate)
             sc_tax_result == ServiceChargeGst(service_charge_amount,
                                               service_charge_tax_group)
         IN  IF sc_tax_result.raised
             THEN sc_tax_result
             ELSE LET total_tax ==
                          _round_currency(DAdd(item_tax, sc_tax_result.value.tax_amount))
                      split == BalancedSplit(total_tax)
                  IN  Return([subtotal |-> item_subtotal,
                              total_tax |-> total_tax,
                              total_cgst |-> split[1],
                              total_sgst |-> split[2],
                              total_amount |-> TotalAmount(item_subtotal,
                                                           service_charge_amount,
                                                           total_tax),
                              service_charge_amount |-> service_charge_amount])

---------------------------------------------------------------------------
(* Inputs of the line calculator *)

SplitTypes == {"GST_50_50", "NO_SPLIT"}

\* total_rate, in percent
Rates == {D(-100), Zero, Dec(5, 2), D(18), D(100)}

TaxGroupConfigs ==
    [total_rate : Rates, split_type : SplitTypes, is_tax_inclusive : BOOLEAN]

\* Unit prices, in major units: negative, zero, below the minor unit, ties of the
\* rounding of the price, whole minor units, and the prices of the spec's examples.
UnitPrices ==
    {Dec(-1005, 1000), Zero, Dec(4, 1000), Dec(5, 1000), Dec(1, 100), Dec(3, 100),
     Dec(1, 10), Dec(1, 5), D(1), D(100), D(118)}

Quantities == -1 .. MaxQuantity

NoCall == [op |-> "none"]

\* A wrapped function that has not been called: no invocation, no wait, no outcome
NotCalled ==
    [pc |-> "idle", retry_count |-> 0, wait_time |-> 0, events |-> <<>>, outcome |-> <<>>]

\* The catalogue a shop starts billing with: one product priced 100.00, in a tax group
\* of 18% split 50/50, exclusive of tax
InitialTaxGroups ==
    "G1" :> [name |-> "GST 18", total_rate |-> D(18), split_type |-> "GST_50_50",
             is_tax_inclusive |-> FALSE, is_active |-> TRUE]

InitialProducts ==
    "P1" :> [name |-> "Tea", selling_price |-> D(100), tax_group_id |-> "G1",
             is_active |-> TRUE]

LineCall(unit_price, quantity, tax_group) ==
    [op |-> "calculate_line_item",
     unit_price |-> unit_price,
     quantity |-> quantity,
     tax_group |-> tax_group,
     outcome |-> calculate_line_item(unit_price, quantity, tax_group)]

---------------------------------------------------------------------------
(* The line calculator called on its own *)

Init ==
    /\ call = NoCall
    /\ twin = <<>>
    /\ line_items = <<>>
    /\ bill = NoCall
    /\ log = <<>>
    /\ wrapper = NotCalled
    /\ tax_groups = InitialTaxGroups
    /\ products = InitialProducts
    /\ bills = <<>>
    /\ bill_items = <<>>
    /\ request = NoCall
    /\ response = NoCall
    /\ businesses = {}
    /\ users = [onboarding_completed |-> FALSE]
    /\ attempts = <<>>
    /\ ledger = <<>>
    /\ movements = <<>>

CalculateLineItem ==
    \E unit_price \in UnitPrices, quantity \in Quantities, tax_group \in TaxGroupConfigs :
        /\ call' = LineCall(unit_price, quantity, tax_group)
        /\ twin' = <<>>
        /\ UNCHANGED <<line_items, bill, others>>

\* The line of an exclusive call at price P and rate R, priced again as an
\* inclusive line at unit price P * (1 + R/100), same quantity, rate and split.
ReexpressInclusive ==
    /\ call.op = "calculate_line_item"
    /\ twin = <<>>
    /\ ~call.outcome.raised
    /\ ~call.tax_group.is_tax_inclusive
    /\ call' = LineCall(DMul(call.unit_price, TaxMultiplier(call.tax_group)),
                        call.quantity,
                        [call.tax_group EXCEPT !.is_tax_inclusive = TRUE])
    /\ twin' = <<call>>
    /\ UNCHANGED <<line_items, bill, others>>

Next == CalculateLineItem \/ ReexpressInclusive

Spec == Init /\ [][Next]_vars

---------------------------------------------------------------------------
(* A bill: lines priced one by one, then summarised *)

\* Products on sale: the unit price and the tax group create_bill resolves for them.
Catalogue ==
    {[unit_price |-> D(100),
      tax_group |-> [total_rate |-> D(18), split_type |-> "GST_50_50",
                     is_tax_inclusive |-> FALSE]],
     [unit_price |-> D(100),
      tax_group |-> [total_rate |-> D(10), split_type |-> "GST_50_50",
                     is_tax_inclusive |-> FALSE]],
     [unit_price |-> Dec(4, 100),
      tax_group |-> [total_rate |-> Zero, split_type |-> "NO_SPLIT",
                     is_tax_inclusive |-> FALSE]],
     [unit_price |-> Dec(999, 100),
      tax_group |-> [total_rate |-> D(5), split_type |-> "GST_50_50",
                     is_tax_inclusive |-> TRUE]],
     [unit_price |-> Dec(35, 100),
      tax_group |-> [total_rate |-> Dec(5, 2), split_type |-> "NO_SPLIT",
                     is_tax_inclusive |-> FALSE]]}

ItemQuantities == 1 .. MaxItemQuantity

\* service_charge_rate, in percent
ServiceChargeRates == {D(-10), Zero, D(10)}

\* service_charge_tax_group: None, or a TaxGroupConfig
ServiceChargeTaxGroups ==
    {<<>>,
     <<[total_rate |-> D(18), split_type |-> "GST_50_50", is_tax_inclusive |-> FALSE]>>,
     <<[total_rate |-> D(18), split_type |-> "GST_50_50", is_tax_inclusive |-> TRUE]>>,
     <<[total_rate |-> Dec(5, 2), split_type |-> "NO_SPLIT", is_tax_inclusive |-> FALSE]>>,
     <<[total_rate |-> D(-5), split_type |-> "NO_SPLIT", is_tax_inclusive |-> FALSE]>>,
     <<[total_rate |-> D(-5), split_type |-> "GST_50_50", is_tax_inclusive |-> TRUE]>>}

\* One pass of the item loop of create_bill: the line is priced and its result kept.
\* A raised exception leaves the loop, and no result is kept.
AddItem ==
    \E product \in Catalogue, quantity \in ItemQuantities :
        LET tax_result == calculate_line_item(product.unit_price, quantity,
                                              product.tax_group)
        IN  /\ Len(line_items) < MaxLines
            /\ line_items' = IF tax_result.raised
                             THEN line_items
                             ELSE Append(line_items, tax_result.value)
            /\ bill' = NoCall
            /\ UNCHANGED <<call, twin, others>>

GenerateBillSummary ==
    \E service_charge_enabled \in BOOLEAN,
       service_charge_rate \in ServiceChargeRates,
       service_charge_tax_group \in ServiceChargeTaxGroups :
        /\ bill' = [op |-> "generate_bill_summary",
                    line_items |-> line_items,
                    service_charge_enabled |-> service_charge_enabled,
                    service_charge_rate |-> service_charge_rate,
                    service_charge_tax_group |-> service_charge_tax_group,
                    outcome |-> generate_bill_summary(line_items,
                                                      service_charge_enabled,
                                                      service_charge_rate,
                                                      service_charge_tax_group)]
        /\ UNCHANGED <<call, twin, line_items, others>>

\* The next bill starts from an empty list of line results.
NewBill ==
    /\ bill.op = "generate_bill_summary"
    /\ line_items' = <<>>
    /\ bill' = NoCall
    /\ UNCHANGED <<call, twin, others>>

NextBill == AddItem \/ GenerateBillSummary \/ NewBill

SpecBill == Init /\ [][NextBill]_vars

---------------------------------------------------------------------------
(* The engine invoked again and again by one process: every invocation is kept, *)
(* with its arguments and its outcome                                            *)

LineArguments ==
    [unit_price : {Dec(35, 100), D(100)},
     quantity : 0 .. 2,
     tax_group : {[total_rate |-> D(18), split_type |-> "GST_50_50",
                   is_tax_inclusive |-> FALSE],
                  [total_rate |-> Dec(5, 2), split_type |-> "NO_SPLIT",
                   is_tax_inclusive |-> TRUE]}]

ServiceChargeArguments ==
    {[service_charge_enabled |-> FALSE, service_charge_rate |-> Zero,
      service_charge_tax_group |-> <<>>],
     [service_charge_enabled |-> TRUE, service_charge_rate |-> D(10),
      service_charge_tax_group |-> <<>>],
     [service_charge_enabled |-> TRUE, service_charge_rate |-> D(10),
      service_charge_tax_group |->
          <<[total_rate |-> D(18), split_type |-> "GST_50_50",
             is_tax_inclusive |-> FALSE]>>]}

RECURSIVE ReturnedLines(_)
\* The LineItemTaxResults the invocations kept in s returned, in order
ReturnedLines(s) ==
    IF s = <<>> THEN <<>>
    ELSE LET earlier == ReturnedLines(SubSeq(s, 1, Len(s) - 1))
             last == s[Len(s)]
         IN  IF last.op = "calculate_line_item" /\ ~last.outcome.raised
             THEN Append(earlier, last.outcome.value)
             ELSE earlier

InvokeCalculateLineItem ==
    \E args \in LineArguments :
        /\ Len(log) < MaxCalls
        /\ log' = Append(log,
                         [op |-> "calculate_line_item",
                          args |-> args,
                          outcome |-> calculate_line_item(args.unit_price, args.quantity,
                                                          args.tax_group)])
        /\ UNCHANGED <<call, twin, line_items, bill, wrapper, services>>

\* The lines returned so far are summarised, as create_bill does.
InvokeGenerateBillSummary ==
    \E sc \in ServiceChargeArguments :
        LET items == ReturnedLines(log)
        IN  /\ Len(log) < MaxCalls
            /\ log' = Append(log,
                             [op |-> "generate_bill_summary",
                              args |-> [items |-> items,
                                        service_charge_enabled |-> sc.service_charge_enabled,
                                        service_charge_rate |-> sc.service_charge_rate,
                                        service_charge_tax_group |->
                                            sc.service_charge_tax_group],
                              outcome |-> generate_bill_summary(
                                              items,
                                              sc.service_charge_enabled,
                                              sc.service_charge_rate,
                                              sc.service_charge_tax_group)])
            /\ UNCHANGED <<call, twin, line_items, bill, wrapper, services>>

NextEngine == InvokeCalculateLineItem \/ InvokeGenerateBillSummary

SpecEngine == Init /\ [][NextEngine]_vars

---------------------------------------------------------------------------
(* handle_database_error: async_wrapper and sync_wrapper, which differ only in *)
(* awaiting the wrapped function                                               *)

max_retries == 3

UniqueKeywords == {"unique", "duplicate", "already exists"}
ForeignKeyKeywords == {"foreign key", "violates foreign key", "fk_"}
RlsKeywords == {"policy", "row-level security", "rls", "insufficient_privilege"}
ConnectionKeywords == {"connection", "timeout", "network", "unavailable", "refused"}

\* The message of an exception is modelled by the set of its fragments that can
\* match a keyword, each spelled as in the message.
\* str.lower(), on the spellings the modelled messages use
lower(fragment) ==
    CASE fragment = "Connection" -> "connection"
      [] fragment = "Resource already exists" -> "already exists"
      [] fragment = "RLS" -> "rls"
      [] OTHER -> fragment

\* error_str = str(e).lower(), as the set of keywords that occur in it
error_str(message) == {lower(fragment) : fragment \in message}

\* any(keyword in error_str for keyword in keywords)
AnyKeywordIn(message, keywords) == error_str(message) \cap keywords # {}

HTTPException(status_code, detail) ==
    [raised |-> TRUE, exc |-> "HTTPException", status_code |-> status_code,
     detail |-> detail]

\* The except block: the HTTPException to raise, or the retry to make after
\* waiting.  retry_count is the count before the block.
handle_database_error_connection_first(message, retry_count) ==
    IF AnyKeywordIn(message, ConnectionKeywords)
    THEN IF retry_count + 1 < max_retries
         THEN [do |-> "retry", retry_count |-> retry_count + 1,
               wait_time |-> 2 ^ (retry_count + 1)]
         ELSE [do |-> "raise", retry_count |-> retry_count + 1,
               exception |-> HTTPException(503, "Database temporarily unavailable. Please try again later.")]
    ELSE IF AnyKeywordIn(message, UniqueKeywords)
    THEN [do |-> "raise", retry_count |-> retry_count,
          exception |-> HTTPException(409, "Resource already exists. This record conflicts with an existing entry.")]
    ELSE IF AnyKeywordIn(message, ForeignKeyKeywords)
    THEN [do |-> "raise", retry_count |-> retry_count,
          exception |-> HTTPException(400, "Invalid reference to related resource. The referenced record does not exist.")]
    ELSE IF AnyKeywordIn(message, RlsKeywords)
    THEN [do |-> "raise", retry_count |-> retry_count,
          exception |-> HTTPException(403, "Access denied: You do not have permission to access this resource.")]
    ELSE [do |-> "raise", retry_count |-> retry_count,
          exception |-> HTTPException(500, "An internal database error occurred. Please try again or contact support.")]

handle_database_error_wait_before_count(message, retry_count) ==
    IF AnyKeywordIn(message, UniqueKeywords)
    THEN [do |-> "raise", retry_count |-> retry_count,
          exception |-> HTTPException(409, "Resource already exists. This record conflicts with an existing entry.")]
    ELSE IF AnyKeywordIn(message, ForeignKeyKeywords)
    THEN [do |-> "raise", retry_count |-> retry_count,
          exception |-> HTTPException(400, "Invalid reference to related resource. The referenced record does not exist.")]
    ELSE IF AnyKeywordIn(message, RlsKeywords)
    THEN [do |-> "raise", retry_count |-> retry_count,
          exception |-> HTTPException(403, "Access denied: You do not have permission to access this resource.")]
    ELSE IF AnyKeywordIn(message, ConnectionKeywords)
    THEN IF retry_count + 1 < max_retries
         THEN [do |-> "retry", retry_count |-> retry_count + 1,
               wait_time |-> 2 ^ retry_count]
         ELSE [do |-> "raise", retry_count |-> retry_count + 1,
               exception |-> HTTPException(503, "Database temporarily unavailable. Please try again later.")]
    ELSE [do |-> "raise", retry_count |-> retry_count,
          exception |-> HTTPException(500, "An internal database error occurred. Please try again or contact support.")]

handle_database_error_one_retry(message, retry_count) ==
    IF AnyKeywordIn(message, UniqueKeywords)
    THEN [do |-> "raise", retry_count |-> retry_count,
          exception |-> HTTPException(409, "Resource already exists. This record conflicts with an existing entry.")]
    ELSE IF AnyKeywordIn(message, ForeignKeyKeywords)
    THEN [do |-> "raise", retry_count |-> retry_count,
          exception |-> HTTPException(400, "Invalid reference to related resource. The referenced record does not exist.")]
    ELSE IF AnyKeywordIn(message, RlsKeywords)
    THEN [do |-> "raise", retry_count |-> retry_count,
          exception |-> HTTPException(403, "Access denied: You do not have permission to access this resource.")]
    ELSE IF AnyKeywordIn(message, ConnectionKeywords)
    THEN IF retry_count + 1 < max_retries - 1
         THEN [do |-> "retry", retry_count |-> retry_count + 1,
               wait_time |-> 2 ^ (retry_count + 1)]
         ELSE [do |-> "raise", retry_count |-> retry_count + 1,
               exception |-> HTTPException(503, "Database temporarily unavailable. Please try again later.")]
    ELSE [do |-> "raise", retry_count |-> retry_count,
          exception |-> HTTPException(500, "An internal database error occurred. Please try again or contact support.")]

handle_database_error(message, retry_count) ==
    IF AnyKeywordIn(message, UniqueKeywords)
    THEN [do |-> "raise", retry_count |-> retry_count,
          exception |-> HTTPException(409, "Resource already exists. This record conflicts with an existing entry.")]
    ELSE IF AnyKeywordIn(message, ForeignKeyKeywords)
    THEN [do |-> "raise", retry_count |-> retry_count,
          exception |-> HTTPException(400, "Invalid reference to related resource. The referenced record does not exist.")]
    ELSE IF AnyKeywordIn(message, RlsKeywords)
    THEN [do |-> "raise", retry_count |-> retry_count,
          exception |-> HTTPException(403, "Access denied: You do not have permission to access this resource.")]
    ELSE IF AnyKeywordIn(message, ConnectionKeywords)
    THEN IF retry_count + 1 < max_retries
         THEN [do |-> "retry", retry_count |-> retry_count + 1,
               wait_time |-> 2 ^ (retry_count + 1)]
         ELSE [do |-> "raise", retry_count |-> retry_count + 1,
               exception |-> HTTPException(503, "Database temporarily unavailable. Please try again later.")]
    ELSE [do |-> "raise", retry_count |-> retry_count,
          exception |-> HTTPException(500, "An internal database error occurred. Please try again or contact support.")]

\* The messages of the exceptions the wrapped function raises: those of the tests,
\* and messages that carry keywords of two classes.
Messages ==
    {{"duplicate", "unique"},                           \* duplicate key value violates unique constraint
     {"Resource already exists"},                       \* Resource already exists in database
     {"violates foreign key", "foreign key", "fk_"},    \* violates foreign key constraint fk_business_user
     {"row-level security", "policy"},                  \* new row violates row-level security policy
     {"insufficient_privilege"},                        \* insufficient_privilege: permission denied
     {"connection", "refused"},                         \* connection refused by server
     {"Connection", "timeout"},                         \* Connection timeout
     {"network", "unavailable"},                        \* network unavailable
     {},                                                \* unexpected database error
     {"duplicate", "connection"},                       \* duplicate key on connection 7
     {"foreign key", "timeout"},                        \* foreign key check: timeout
     {"RLS", "refused"},                                \* RLS: refused
     {"unique", "fk_"}}                                 \* unique index fk_owner

\* The wrapped function is called: max_retries = 3, retry_count = 0
CallWrapped ==
    /\ wrapper.pc \in {"idle", "done"}
    /\ wrapper' = [NotCalled EXCEPT !.pc = "loop"]
    /\ UNCHANGED <<call, twin, line_items, bill, log, services>>

\* The function returned: the wrapper returns its result.
Returns ==
    [wrapper EXCEPT !.pc = "done",
                    !.events = Append(@, [kind |-> "invoke", raised |-> FALSE,
                                          message |-> {}]),
                    !.outcome = <<Return("result")>>]

\* The function raised an exception of this message: the except block.
Raises(message) ==
    LET handled == handle_database_error(message, wrapper.retry_count)
        invoked == Append(wrapper.events,
                          [kind |-> "invoke", raised |-> TRUE, message |-> message])
    IN  IF handled.do = "retry"
        THEN [wrapper EXCEPT !.pc = "sleep",
                             !.retry_count = handled.retry_count,
                             !.wait_time = handled.wait_time,
                             !.events = invoked]
        ELSE [wrapper EXCEPT !.pc = "done",
                             !.retry_count = handled.retry_count,
                             !.events = invoked,
                             !.outcome = <<handled.exception>>]

\* One pass of `while retry_count < max_retries`; a loop that ends returns None.
Iterate ==
    /\ wrapper.pc = "loop"
    /\ IF wrapper.retry_count < max_retries
       THEN \/ wrapper' = Returns
            \/ \E message \in Messages : wrapper' = Raises(message)
       ELSE wrapper' = [wrapper EXCEPT !.pc = "done", !.outcome = <<Return("None")>>]
    /\ UNCHANGED <<call, twin, line_items, bill, log, services>>

\* time.sleep(wait_time), then `continue`
Sleep ==
    /\ wrapper.pc = "sleep"
    /\ wrapper' = [wrapper EXCEPT !.pc = "loop",
                                  !.events = Append(@, [kind |-> "sleep",
                                                        seconds |-> wrapper.wait_time])]
    /\ UNCHANGED <<call, twin, line_items, bill, log, services>>

NextRetry == CallWrapped \/ Iterate \/ Sleep

SpecRetry == Init /\ [][NextRetry]_vars

---------------------------------------------------------------------------
(* The catalogue: products and tax groups are updated while bills are kept *)

\* The variables the billing service and the catalogue services leave alone
outside_billing == <<engine, onboarding_state, inventory>>

\* In an update, <<>> is a field the request leaves unset and <<v>> one it sets to v:
\* model_dump(exclude_unset=True) keeps the fields that are set.
Updated(row, update_data) ==
    [f \in DOMAIN row |->
        IF f \in DOMAIN update_data /\ update_data[f] # <<>> THEN update_data[f][1] ELSE row[f]]

\* TaxGroupUpdate requests: a new rate, split and inclusivity; the old ones back; a deactivation
TaxGroupUpdates ==
    {[total_rate |-> <<D(5)>>, split_type |-> <<"NO_SPLIT">>, is_tax_inclusive |-> <<TRUE>>,
      is_active |-> <<>>],
     [total_rate |-> <<D(18)>>, split_type |-> <<"GST_50_50">>, is_tax_inclusive |-> <<FALSE>>,
      is_active |-> <<>>],
     [total_rate |-> <<>>, split_type |-> <<>>, is_tax_inclusive |-> <<>>,
      is_active |-> <<FALSE>>]}

\* ProductUpdate requests: a new name and price; the old ones back; a reactivation
ProductUpdates ==
    {[name |-> <<"Chai">>, selling_price |-> <<D(120)>>, is_active |-> <<>>],
     [name |-> <<"Tea">>, selling_price |-> <<D(100)>>, is_active |-> <<>>],
     [name |-> <<>>, selling_price |-> <<>>, is_active |-> <<TRUE>>]}

ProductsUsing(tax_group_id) ==
    {id \in DOMAIN products : products[id].tax_group_id = tax_group_id}

\* The table tax_groups after TaxGroupService.update_tax_group: the same when the group is
\* unknown (None is returned) or a deactivation is refused because products use the group
\* (ValueError).  The name is not updated here, so no name conflicts.
update_tax_group(tax_group_id, tax_group_update) ==
    IF tax_group_id \notin DOMAIN tax_groups
    THEN tax_groups
    ELSE IF tax_group_update.is_active = <<FALSE>> /\ ProductsUsing(tax_group_id) # {}
    THEN tax_groups
    ELSE [tax_groups EXCEPT ![tax_group_id] = Updated(@, tax_group_update)]

\* The table products after ProductService.update_product (no SKU or barcode in the update)
update_product(product_id, product_update) ==
    IF product_id \notin DOMAIN products
    THEN products
    ELSE [products EXCEPT ![product_id] = Updated(@, product_update)]

\* The table products after ProductService.deactivate_product (soft delete)
deactivate_product(product_id) ==
    IF product_id \notin DOMAIN products
    THEN products
    ELSE [products EXCEPT ![product_id].is_active = FALSE]

UpdateTaxGroup ==
    \E tax_group_id \in DOMAIN tax_groups, tax_group_update \in TaxGroupUpdates :
        /\ tax_groups' = update_tax_group(tax_group_id, tax_group_update)
        /\ UNCHANGED <<products, bills, bill_items, request, response, outside_billing>>

UpdateProduct ==
    \E product_id \in DOMAIN products, product_update \in ProductUpdates :
        /\ products' = update_product(product_id, product_update)
        /\ UNCHANGED <<tax_groups, bills, bill_items, request, response, outside_billing>>

DeactivateProduct ==
    \E product_id \in DOMAIN products :
        /\ products' = deactivate_product(product_id)
        /\ UNCHANGED <<tax_groups, bills, bill_items, request, response, outside_billing>>

---------------------------------------------------------------------------
(* BillRepository: the tables bills and bill_items *)

\* Amounts cross the repository as floats: float(Decimal) of an amount of two decimals
\* and Decimal(str(float)) of it give the amount back, so the rows hold the amounts.

\* Python's `a or b` on numbers: b when a is 0
Or(a, b) == IF a = Zero THEN b ELSE a

\* The parameters of BillRepository.create_bill that have no default
create_bill_parameters ==
    {"user_id", "subtotal", "service_charge_enabled", "service_charge_rate",
     "service_charge_amount", "service_charge_tax_rate", "service_charge_tax_amount",
     "service_charge_cgst_amount", "service_charge_sgst_amount", "tax_amount",
     "total_amount", "payment_method"}

\* The parameters of BillRepository.create_bill_item that have no default
create_bill_item_parameters ==
    {"bill_id", "product_id", "quantity", "unit_price", "product_name_snapshot",
     "category_name_snapshot", "tax_rate", "tax_amount", "line_subtotal", "line_total"}

\* A call with keyword arguments kw binds when every parameter without a default is given;
\* Python raises TypeError otherwise, before the body runs.
Binds(parameters, kw) == parameters \subseteq DOMAIN kw

\* BillRepository.create_bill called with keyword arguments kw: the row inserted into bills
\* (bill_number counts the bills), or the TypeError of a call that does not bind
bill_repo_create_bill(kw) ==
    IF ~Binds(create_bill_parameters, kw)
    THEN Raise("TypeError", "create_bill() missing required positional arguments")
    ELSE Return([id |-> Len(bills) + 1,
                 bill_number |-> Len(bills) + 1,
                 subtotal |-> kw.subtotal,
                 service_charge_enabled |-> kw.service_charge_enabled,
                 service_charge_rate |-> kw.service_charge_rate,
                 service_charge_amount |-> kw.service_charge_amount,
                 service_charge_tax_rate_snapshot |-> kw.service_charge_tax_rate,
                 service_charge_tax_amount |-> kw.service_charge_tax_amount,
                 service_charge_cgst_amount |-> kw.service_charge_cgst_amount,
                 service_charge_sgst_amount |-> kw.service_charge_sgst_amount,
                 tax_amount |-> kw.tax_amount,
                 total_amount |-> kw.total_amount,
                 payment_method |-> kw.payment_method])

\* BillRepository.create_bill_item called with keyword arguments kw, all sixteen given as
\* step 6 of create_bill gives them: the row inserted into bill_items
bill_repo_create_bill_item(kw) ==
    IF ~Binds(create_bill_item_parameters, kw)
    THEN Raise("TypeError", "create_bill_item() missing required positional arguments")
    ELSE Return([bill_id |-> kw.bill_id,
                 product_id |-> kw.product_id,
                 quantity |-> kw.quantity,
                 selling_price |-> kw.unit_price,
                 product_name_snapshot |-> kw.product_name_snapshot,
                 category_name_snapshot |-> kw.category_name_snapshot,
                 tax_rate |-> kw.tax_rate,
                 tax_amount |-> kw.tax_amount,
                 line_subtotal |-> kw.line_subtotal,
                 line_total |-> kw.line_total,
                 tax_group_name_snapshot |-> kw.tax_group_name_snapshot,
                 tax_rate_snapshot |-> IF kw.tax_rate_snapshot # <<>>
                                       THEN kw.tax_rate_snapshot[1]
                                       ELSE kw.tax_rate,
                 is_tax_inclusive_snapshot |-> kw.is_tax_inclusive_snapshot,
                 taxable_value |-> kw.taxable_value,
                 cgst_amount |-> kw.cgst_amount,
                 sgst_amount |-> kw.sgst_amount])

\* The rows of bill_items of one bill, in insertion order
RowsOf(bill_id) ==
    LET OfBill(row) == row.bill_id = bill_id
    IN  SelectSeq(bill_items, OfBill)

\* One item of the dict BillRepository.get_bill returns, from its row alone
item_data(item) ==
    [bill_id |-> item.bill_id,
     product_id |-> item.product_id,
     product_name |-> item.product_name_snapshot,
     category_name |-> item.category_name_snapshot,
     quantity |-> item.quantity,
     unit_price |-> item.selling_price,
     tax_rate |-> Or(item.tax_rate_snapshot, item.tax_rate),
     tax_amount |-> item.tax_amount,
     line_subtotal |-> Or(item.taxable_value, item.line_subtotal),
     total_price |-> item.line_total,
     cgst_amount |-> item.cgst_amount,
     sgst_amount |-> item.sgst_amount,
     tax_group_name |-> item.tax_group_name_snapshot,
     is_tax_inclusive |-> item.is_tax_inclusive_snapshot]

\* BillRepository.get_bill: <<>> (None) for an unknown bill, else <<the bill row with its items>>
bill_repo_get_bill(bill_id) ==
    IF bill_id \notin DOMAIN bills
    THEN <<>>
    ELSE LET rows == RowsOf(bill_id)
         IN  <<[bill |-> bills[bill_id],
                items |-> [i \in 1 .. Len(rows) |-> item_data(rows[i])]]>>

---------------------------------------------------------------------------
(* BillingService.get_bill *)

\* get_bill re-deriving the items' figures from the products' current tax groups
get_bill_recalculated(bill_id) ==
    LET Recalculated(item) ==
            LET product == products[item.product_id]
                now == calculate_line_item(product.selling_price, item.quantity,
                                           tax_groups[product.tax_group_id]).value
            IN  [item EXCEPT !.product_name = product.name,
                             !.unit_price = product.selling_price,
                             !.tax_rate = tax_groups[product.tax_group_id].total_rate,
                             !.tax_amount = now.tax_amount,
                             !.line_subtotal = now.taxable_value,
                             !.total_price = now.line_total,
                             !.cgst_amount = now.cgst_amount,
                             !.sgst_amount = now.sgst_amount]
        Response(found) ==
            IF found = <<>>
            THEN Raise("ValueError", "Bill not found")
            ELSE LET items == found[1].items
                     tax_amount_decimal == found[1].bill.tax_amount
                     cgst == _round_currency(DDiv(tax_amount_decimal, D(2)))
                 IN  Return([id |-> found[1].bill.id,
                             bill_number |-> found[1].bill.bill_number,
                             subtotal |-> found[1].bill.subtotal,
                             tax_amount |-> found[1].bill.tax_amount,
                             cgst |-> cgst,
                             sgst |-> DSub(tax_amount_decimal, cgst),
                             total_amount |-> found[1].bill.total_amount,
                             payment_method |-> found[1].bill.payment_method,
                             items |-> [i \in 1 .. Len(items) |-> Recalculated(items[i])]])
    IN  Bind(bill_repo_get_bill(bill_id), Response)

\* The BillResponse of a bill, or the ValueError for a bill the repository does not find.
\* CGST and SGST of the bill are derived from its persisted tax_amount.
get_bill(bill_id) ==
    LET Response(found) ==
            IF found = <<>>
            THEN Raise("ValueError", "Bill not found")
            ELSE LET items == found[1].items
                     tax_amount_decimal == found[1].bill.tax_amount
                     cgst == _round_currency(DDiv(tax_amount_decimal, D(2)))
                 IN  Return([id |-> found[1].bill.id,
                             bill_number |-> found[1].bill.bill_number,
                             subtotal |-> found[1].bill.subtotal,
                             tax_amount |-> found[1].bill.tax_amount,
                             cgst |-> cgst,
                             sgst |-> DSub(tax_amount_decimal, cgst),
                             total_amount |-> found[1].bill.total_amount,
                             payment_method |-> found[1].bill.payment_method,
                             items |-> [i \in 1 .. Len(items) |-> items[i]]])
    IN  Bind(bill_repo_get_bill(bill_id), Response)

---------------------------------------------------------------------------
(* BillingService.create_bill *)

\* The empty dict
EmptyDict == [k \in {} |-> <<>>]

\* One turn of the loop over the requested items (steps 1 to 3): the exception it raises,
\* or the entry it keeps in product_data.  unit_price and the rate pass through
\* Decimal(str(float)), which keeps their value.
PriceItem(item) ==
    IF item.product_id \notin DOMAIN products
    THEN Raise("ValueError", "Product not found")
    ELSE LET product == products[item.product_id]
         IN  IF ~product.is_active
             THEN Raise("ValueError", "Product is not active")
             ELSE IF product.tax_group_id = ""
             THEN Raise("ValueError", "Product does not have a tax group assigned")
             ELSE IF product.tax_group_id \notin DOMAIN tax_groups
             THEN Raise("ValueError", "Tax group not found")
             ELSE LET tax_group_data == tax_groups[product.tax_group_id]
                  IN  IF ~tax_group_data.is_active
                      THEN Raise("ValueError", "Tax group is not active")
                      ELSE LET unit_price == IF DLt(Zero, item.unit_price)
                                             THEN item.unit_price
                                             ELSE product.selling_price
                               tax_group_config ==
                                   [name |-> tax_group_data.name,
                                    total_rate |-> tax_group_data.total_rate,
                                    split_type |-> tax_group_data.split_type,
                                    is_tax_inclusive |-> tax_group_data.is_tax_inclusive]
                               Kept(tax_result) ==
                                   IF tax_result.raised
                                   THEN tax_result
                                   ELSE Return([tax_group_config |-> tax_group_config,
                                                unit_price |-> unit_price,
                                                quantity |-> item.quantity,
                                                product_name |-> product.name,
                                                tax_result |-> tax_result.value])
                           IN  Bind(calculate_line_item(unit_price, item.quantity,
                                                        tax_group_config), Kept)

RECURSIVE ItemLoop(_, _, _)
\* The loop of step 1 over the items left: the first exception raised, or line_item_results
\* and product_data.  product_data is a dict keyed by product_id: a later item of the same
\* product replaces the entry of an earlier one.
ItemLoop(items, line_item_results, product_data) ==
    IF items = <<>>
    THEN Return([line_item_results |-> line_item_results, product_data |-> product_data])
    ELSE LET Next_item(priced) ==
                 IF priced.raised
                 THEN priced
                 ELSE ItemLoop(Tail(items),
                               Append(line_item_results, priced.value.tax_result),
                               (Head(items).product_id :> priced.value) @@ product_data)
         IN  Bind(PriceItem(Head(items)), Next_item)

\* The keyword arguments of create_bill_item in step 6, from the entry of product_data
ItemSnapshot(bill_id, product_id, data) ==
    [bill_id |-> bill_id,
     product_id |-> product_id,
     quantity |-> data.quantity,
     unit_price |-> data.unit_price,
     product_name_snapshot |-> data.product_name,
     category_name_snapshot |-> <<>>,
     tax_rate |-> data.tax_group_config.total_rate,
     tax_amount |-> data.tax_result.tax_amount,
     line_subtotal |-> data.tax_result.taxable_value,
     line_total |-> data.tax_result.line_total,
     tax_group_name_snapshot |-> data.tax_group_config.name,
     tax_rate_snapshot |-> <<data.tax_group_config.total_rate>>,
     is_tax_inclusive_snapshot |-> data.tax_group_config.is_tax_inclusive,
     taxable_value |-> data.tax_result.taxable_value,
     cgst_amount |-> data.tax_result.cgst_amount,
     sgst_amount |-> data.tax_result.sgst_amount]

\* One BillItemResponse of step 7, from the inserted row
ItemResponse(item) ==
    [bill_id |-> item.bill_id,
     product_id |-> item.product_id,
     product_name |-> item.product_name_snapshot,
     quantity |-> item.quantity,
     unit_price |-> item.selling_price,
     tax_rate |-> Or(item.tax_rate_snapshot, item.tax_rate),
     tax_amount |-> item.tax_amount,
     line_subtotal |-> Or(item.taxable_value, item.line_subtotal),
     total_price |-> item.line_total,
     cgst_amount |-> item.cgst_amount,
     sgst_amount |-> item.sgst_amount,
     tax_group_name |-> item.tax_group_name_snapshot,
     is_tax_inclusive |-> item.is_tax_inclusive_snapshot]

\* create_bill on a request: its outcome and the tables bills and bill_items after it.
\* Step 5 calls BillRepository.create_bill with five keyword arguments.
create_bill(bill_data) ==
    LET unchanged(outcome) == [outcome |-> outcome, bills |-> bills, bill_items |-> bill_items]
        Step6(product_data, bill_summary, created) ==
            IF created.raised
            THEN unchanged(created)
            ELSE LET new == created.value
                     rows == [i \in 1 .. Len(bill_data.items) |->
                                 bill_repo_create_bill_item(
                                     ItemSnapshot(new.id,
                                                  bill_data.items[i].product_id,
                                                  product_data[bill_data.items[i].product_id])
                                 ).value]
                 IN  [outcome |->
                          Return([id |-> new.id,
                                  bill_number |-> new.bill_number,
                                  subtotal |-> new.subtotal,
                                  tax_amount |-> new.tax_amount,
                                  cgst |-> bill_summary.total_cgst,
                                  sgst |-> bill_summary.total_sgst,
                                  total_amount |-> new.total_amount,
                                  payment_method |-> new.payment_method,
                                  items |-> [i \in 1 .. Len(rows) |-> ItemResponse(rows[i])]]),
                      bills |-> Append(bills, new),
                      bill_items |-> bill_items \o rows]
        Step5(product_data, summarised) ==
            IF summarised.raised
            THEN unchanged(summarised)
            ELSE LET bill_summary == summarised.value
                     Items(created) == Step6(product_data, bill_summary, created)
                 IN  Bind(bill_repo_create_bill(
                              [user_id |-> "U1",
                               subtotal |-> bill_summary.subtotal,
                               tax_amount |-> bill_summary.total_tax,
                               total_amount |-> bill_summary.total_amount,
                               payment_method |-> bill_data.payment_method]),
                          Items)
        Step4(loop) ==
            IF loop.raised
            THEN unchanged(loop)
            ELSE LET Totals(summarised) == Step5(loop.value.product_data, summarised)
                 IN  Bind(generate_bill_summary(loop.value.line_item_results,
                                                FALSE, Zero, <<>>),
                          Totals)
    IN  Bind(ItemLoop(bill_data.items, <<>>, EmptyDict), Step4)

\* BillItemCreate: a product of the catalogue or an unknown one, quantity > 0, and a
\* unit_price >= 0 where 0 asks for the product's price
BillItemCreates ==
    [product_id : {"P1", "P9"}, quantity : 1 .. MaxItemQuantity, unit_price : {Zero, D(80)}]

\* BillCreate.items: at least one item
RequestedItems == UNION {[1 .. n -> BillItemCreates] : n \in 1 .. MaxLines}

CreateBill ==
    \E items \in RequestedItems :
        \E done \in {create_bill([items |-> items, payment_method |-> "CASH"])} :
            /\ request' = [op |-> "create_bill", items |-> items, outcome |-> done.outcome]
            /\ bills' = done.bills
            /\ bill_items' = done.bill_items
            /\ UNCHANGED <<tax_groups, products, response, outside_billing>>

NextBilling == CreateBill \/ UpdateTaxGroup \/ UpdateProduct \/ DeactivateProduct

SpecBilling == Init /\ [][NextBilling]_vars

---------------------------------------------------------------------------
(* Bills kept in the tables, read back while the catalogue changes.  The rows are      *)
(* written with the repository's functions, given the snapshot steps 1 to 4 of         *)
(* create_bill take of one unit of a product at the time of the insert.                *)

\* The entry of product_data for one unit of a product at its current price
SnapshotNow(product_id) == PriceItem([product_id |-> product_id, quantity |-> 1, unit_price |-> Zero])

InsertBill ==
    \E product_id \in DOMAIN products :
        \E data \in {SnapshotNow(product_id)} :
            /\ Len(bills) < MaxBills
            /\ ~data.raised
            /\ \E bill_summary \in {generate_bill_summary(<<data.value.tax_result>>, FALSE, Zero, <<>>).value} :
                   \E created \in {bill_repo_create_bill(
                                        [user_id |-> "U1",
                                         subtotal |-> bill_summary.subtotal,
                                         service_charge_enabled |-> FALSE,
                                         service_charge_rate |-> Zero,
                                         service_charge_amount |-> bill_summary.service_charge_amount,
                                         service_charge_tax_rate |-> <<>>,
                                         service_charge_tax_amount |-> Zero,
                                         service_charge_cgst_amount |-> Zero,
                                         service_charge_sgst_amount |-> Zero,
                                         tax_amount |-> bill_summary.total_tax,
                                         total_amount |-> bill_summary.total_amount,
                                         payment_method |-> "CASH"])} :
                       bills' = Append(bills, created.value)
            /\ UNCHANGED <<tax_groups, products, bill_items, request, response, outside_billing>>

\* An item of the bill inserted last
InsertBillItem ==
    \E product_id \in DOMAIN products :
        \E data \in {SnapshotNow(product_id)} :
            /\ bills # <<>>
            /\ Len(bill_items) < MaxBillItems
            /\ ~data.raised
            /\ \E created \in {bill_repo_create_bill_item(ItemSnapshot(Len(bills), product_id, data.value))} :
                   bill_items' = Append(bill_items, created.value)
            /\ UNCHANGED <<tax_groups, products, bills, request, response, outside_billing>>

GetBill ==
    \E bill_id \in 1 .. MaxBills :
        \E outcome \in {get_bill(bill_id)} :
            /\ response' = [op |-> "get_bill", bill_id |-> bill_id, outcome |-> outcome]
            /\ UNCHANGED <<tax_groups, products, bills, bill_items, request, outside_billing>>

NextHistory ==
    InsertBill \/ InsertBillItem \/ GetBill \/ UpdateTaxGroup \/ UpdateProduct \/ DeactivateProduct

SpecHistory == Init /\ [][NextHistory]_vars

---------------------------------------------------------------------------
(* OnboardingService.complete_onboarding, a function wrapped by handle_database_error *)

\* The parameters of BusinessService.create_business, and those without a default
create_business_parameters == {"name", "owner_id", "website_url", "is_active"}
create_business_required == {"name", "owner_id"}

\* The keywords step 1 of complete_onboarding calls create_business with
create_business_keywords == {"name", "user_id", "website_url", "is_active"}

\* A call by keywords binds when every keyword names a parameter and every parameter
\* without a default is given; Python raises TypeError otherwise, before the body runs.
Accepts(parameters, required, keywords) ==
    keywords \subseteq parameters /\ required \subseteq keywords

\* What a collaborator's call does in one run: <<>> when it succeeds, <<message>> when it
\* raises an exception of that message (a connection-class one, or an unexpected one)
Failures == {<<>>, <<{"connection", "refused"}>>, <<{}>>}

\* The collaborators of one run of complete_onboarding.  business_service is the
\* BusinessService the constructor wires in, or a replacement whose create_business takes
\* the keywords of step 1, as the one tests/test_onboarding_service.py patches in; delete
\* is the delete of the rollback.  The cache of step 5 is left out: its failure is swallowed.
Environments ==
    [business_service : {"BusinessService", "replaced"},
     create_business : Failures,
     create_configuration : Failures,
     create_theme : Failures,
     user_update : Failures,
     delete : Failures]

\* The largest of a set of naturals, 0 for the empty set
Largest(S) == IF S = {} THEN 0 ELSE CHOOSE n \in S : \A m \in S : m <= n

\* The id of the next row of businesses: one the table has not given out in this call
NextBusinessId ==
    1 + Largest(businesses \cup {attempts[i].business_id[1] :
                                    i \in {j \in DOMAIN attempts : attempts[j].business_id # <<>>}})

\* The table businesses after _rollback_business: an exception of the delete is logged
\* and swallowed, and the row stays
_rollback_business(table, business_id, delete) ==
    IF delete = <<>> THEN table \ {business_id} ELSE table

\* One run of the body of complete_onboarding: its outcome, the tables after it, and
\* the business it created and the step that failed.  The rows of the configuration and
\* of the theme go with their business (CASCADE) and are not modelled.
complete_onboarding(env) ==
    LET Ends(outcome, table, user, business_id, failed) ==
            [outcome |-> outcome, businesses |-> table, users |-> user,
             attempt |-> [business_id |-> business_id, failed |-> failed]]
    IN  IF /\ env.business_service = "BusinessService"
           /\ ~Accepts(create_business_parameters, create_business_required,
                       create_business_keywords)
        THEN Ends(Raise("TypeError", {}), businesses, users, <<>>, "create_business")
        ELSE IF env.create_business # <<>>
        THEN Ends(Raise("Exception", env.create_business[1]), businesses, users, <<>>,
                  "create_business")
        ELSE LET business_id == NextBusinessId
                 created == businesses \cup {business_id}
                 rolled_back == _rollback_business(created, business_id, env.delete)
             IN  IF env.create_configuration # <<>>
                 THEN Ends(Raise("Exception", env.create_configuration[1]), rolled_back, users,
                           <<business_id>>, "create_configuration")
                 ELSE IF env.create_theme # <<>>
                 THEN Ends(Raise("Exception", env.create_theme[1]), rolled_back, users,
                           <<business_id>>, "create_theme")
                 ELSE IF env.user_update # <<>>
                 THEN Ends(Raise("Exception", env.user_update[1]), rolled_back, users,
                           <<business_id>>, "user_update")
                 ELSE Ends(Return("Onboarding completed successfully"), created,
                           [users EXCEPT !.onboarding_completed = TRUE],
                           <<business_id>>, "none")

\* complete_onboarding is called while the table holds fewer than MaxBusinesses rows
CallOnboarding ==
    /\ wrapper.pc \in {"idle", "done"}
    /\ Cardinality(businesses) < MaxBusinesses
    /\ wrapper' = [NotCalled EXCEPT !.pc = "loop"]
    /\ attempts' = <<>>
    /\ UNCHANGED <<call, twin, line_items, bill, log, billing, businesses, users, inventory>>

\* One pass of the wrapper's loop: the body runs, and returns or raises into the except block
RunOnboarding ==
    /\ wrapper.pc = "loop"
    /\ IF wrapper.retry_count < max_retries
       THEN \E env \in Environments :
                LET ran == complete_onboarding(env)
                IN  /\ wrapper' = IF ran.outcome.raised THEN Raises(ran.outcome.msg) ELSE Returns
                    /\ businesses' = ran.businesses
                    /\ users' = ran.users
                    /\ attempts' = Append(attempts, ran.attempt)
       ELSE /\ wrapper' = [wrapper EXCEPT !.pc = "done", !.outcome = <<Return("None")>>]
            /\ UNCHANGED <<businesses, users, attempts>>
    /\ UNCHANGED <<call, twin, line_items, bill, log, billing, inventory>>

NextOnboarding == CallOnboarding \/ RunOnboarding \/ Sleep

SpecOnboarding == Init /\ [][NextOnboarding]_vars

---------------------------------------------------------------------------
(* InventoryService: add_stock and deduct_stock on the inventory ledger *)

\* The positional parameters of ProductRepository.get_product after self
get_product_parameters == <<"product_id">>

\* ProductRepository.get_product called with positional arguments: TypeError when there
\* are more arguments than parameters, else <<the row>> or <<>> (None)
product_repo_get_product(args) ==
    IF Len(args) > Len(get_product_parameters)
    THEN Raise("TypeError", "get_product() takes 2 positional arguments but 3 were given")
    ELSE IF args[1] \in DOMAIN products
    THEN Return(<<products[args[1]]>>)
    ELSE Return(<<>>)

RECURSIVE StockOf(_, _, _)
\* SUM of quantity_change over the entries of a product and user in a ledger
StockOf(entries, product_id, user_id) ==
    IF entries = <<>>
    THEN 0
    ELSE StockOf(Tail(entries), product_id, user_id)
         + (IF Head(entries).product_id = product_id /\ Head(entries).user_id = user_id
            THEN Head(entries).quantity_change
            ELSE 0)

get_product_stock(product_id, user_id) == StockOf(ledger, product_id, user_id)

\* The row create_ledger_entry inserts
create_ledger_entry(product_id, user_id, quantity_change, movement_type) ==
    [product_id |-> product_id, user_id |-> user_id, quantity_change |-> quantity_change,
     movement_type |-> movement_type]

\* add_stock: its outcome and the ledger after it
add_stock(product_id, user_id, quantity) ==
    LET product == product_repo_get_product(<<product_id, user_id>>)
    IN  IF product.raised
        THEN [outcome |-> product, ledger |-> ledger]
        ELSE IF product.value = <<>>
        THEN [outcome |-> Raise("ValueError", "Product not found"), ledger |-> ledger]
        ELSE LET result == create_ledger_entry(product_id, user_id, quantity, "INCOMING")
             IN  [outcome |-> Return(result), ledger |-> Append(ledger, result)]

\* deduct_stock: its outcome and the ledger after it
deduct_stock(product_id, user_id, quantity) ==
    LET product == product_repo_get_product(<<product_id, user_id>>)
    IN  IF product.raised
        THEN [outcome |-> product, ledger |-> ledger]
        ELSE IF product.value = <<>>
        THEN [outcome |-> Raise("ValueError", "Product not found"), ledger |-> ledger]
        ELSE IF get_product_stock(product_id, user_id) < quantity
        THEN [outcome |-> Raise("ValueError", "Insufficient stock"), ledger |-> ledger]
        ELSE LET result == create_ledger_entry(product_id, user_id, -quantity, "OUTGOING")
             IN  [outcome |-> Return(result), ledger |-> Append(ledger, result)]

\* AddStockRequest and DeductStockRequest: quantity is any int
StockQuantities == -MaxStock .. MaxStock

ProductIds == {"P1", "P9"}

AddStock ==
    \E product_id \in ProductIds, quantity \in StockQuantities :
        LET done == add_stock(product_id, "U1", quantity)
        IN  /\ Len(movements) < MaxMovements
            /\ movements' = Append(movements, [op |-> "add_stock", product_id |-> product_id,
                                               quantity |-> quantity, outcome |-> done.outcome])
            /\ ledger' = done.ledger
            /\ UNCHANGED <<engine, billing, onboarding_state>>

DeductStock ==
    \E product_id \in ProductIds, quantity \in StockQuantities :
        LET done == deduct_stock(product_id, "U1", quantity)
        IN  /\ Len(movements) < MaxMovements
            /\ movements' = Append(movements, [op |-> "deduct_stock", product_id |-> product_id,
                                               quantity |-> quantity, outcome |-> done.outcome])
            /\ ledger' = done.ledger
            /\ UNCHANGED <<engine, billing, onboarding_state>>

NextInventory == AddStock \/ DeductStock

SpecInventory == Init /\ [][NextInventory]_vars

---------------------------------------------------------------------------
(* Claims about the line calculator, checked under Spec *)

Called == call.op = "calculate_line_item"
Returned == Called /\ ~call.outcome.raised
line == call.outcome.value

\* C1: every LineItemTaxResult calculate_line_item returns has
\* line_total = taxable_value + tax_amount exactly, with no tolerance.
C1_LineTotalIsTaxablePlusTax ==
    Returned => line.line_total = DAdd(line.taxable_value, line.tax_amount)

\* An inclusive line with tax whose extracted taxable value had to be rounded.
C1_Witness ==
    /\ Returned
    /\ call.tax_group.is_tax_inclusive
    /\ line.tax_amount # Zero
    /\ DMul(line.taxable_value, TaxMultiplier(call.tax_group)) # line.line_total

\* C2: every LineItemTaxResult calculate_line_item returns has
\* cgst_amount + sgst_amount = tax_amount exactly, under either split policy.
C2_SplitSumsToTax ==
    Returned => DAdd(line.cgst_amount, line.sgst_amount) = line.tax_amount

\* A 50/50 split of an odd number of minor units: the halves differ.
C2_Witness ==
    /\ Returned
    /\ call.tax_group.split_type = "GST_50_50"
    /\ line.cgst_amount # line.sgst_amount

WithinOneMinorUnit(a, b) == ~DLt(Dec(1, 100), DAbs(DSub(a, b)))

RoundedPriceTimesQuantity ==
    _round_currency(DMul(_round_currency(call.unit_price), D(call.quantity)))

\* C11: for an inclusive config with rate > 0, line_total is
\* round(round(unit_price) * quantity), taxable_value is
\* round(line_total / (1 + rate/100)) and tax_amount is line_total - taxable_value;
\* 118.00 x 1 at 18% gives 100.00, 18.00 and 118.00.
C11_InclusiveAmounts ==
    (/\ Returned
     /\ call.tax_group.is_tax_inclusive
     /\ DLt(Zero, call.tax_group.total_rate)) =>
        LET expected_total == RoundedPriceTimesQuantity
            expected_taxable ==
                _round_currency(
                    DDiv(expected_total,
                         DAdd(D(1), DDiv(call.tax_group.total_rate, D(100)))))
        IN  /\ line.line_total = expected_total
            /\ line.taxable_value = expected_taxable
            /\ line.tax_amount = DSub(expected_total, expected_taxable)
            /\ (/\ call.unit_price = D(118)
                /\ call.quantity = 1
                /\ call.tax_group.total_rate = D(18)) =>
                   /\ line.taxable_value = D(100)
                   /\ line.tax_amount = D(18)
                   /\ line.line_total = D(118)

\* The inclusive call of the example: 118.00 x 1 at 18%.
C11_Witness ==
    /\ Returned
    /\ call.tax_group.is_tax_inclusive
    /\ call.unit_price = D(118)
    /\ call.quantity = 1
    /\ call.tax_group.total_rate = D(18)

\* C12: for an exclusive config with rate > 0, taxable_value is
\* round(round(unit_price) * quantity), tax_amount is round(taxable_value * rate / 100)
\* and line_total is taxable_value + tax_amount; 100.00 x 2 at 18%, 50/50, gives
\* 200.00, 36.00, 18.00, 18.00 and 236.00.
C12_ExclusiveAmounts ==
    (/\ Returned
     /\ ~call.tax_group.is_tax_inclusive
     /\ DLt(Zero, call.tax_group.total_rate)) =>
        LET expected_taxable == RoundedPriceTimesQuantity
            expected_tax ==
                _round_currency(
                    DDiv(DMul(expected_taxable, call.tax_group.total_rate), D(100)))
        IN  /\ line.taxable_value = expected_taxable
            /\ line.tax_amount = expected_tax
            /\ line.line_total = DAdd(expected_taxable, expected_tax)
            /\ (/\ call.unit_price = D(100)
                /\ call.quantity = 2
                /\ call.tax_group.total_rate = D(18)
                /\ call.tax_group.split_type = "GST_50_50") =>
                   /\ line.taxable_value = D(200)
                   /\ line.tax_amount = D(36)
                   /\ line.cgst_amount = D(18)
                   /\ line.sgst_amount = D(18)
                   /\ line.line_total = D(236)

\* An exclusive call at several units whose tax had to be rounded.
C12_Witness ==
    /\ Returned
    /\ ~call.tax_group.is_tax_inclusive
    /\ DLt(Zero, call.tax_group.total_rate)
    /\ call.quantity >= 2
    /\ line.tax_amount #
           DDiv(DMul(line.taxable_value, call.tax_group.total_rate), D(100))

\* C13: at rate 0, tax_amount and both split halves are 0 and line_total and
\* taxable_value are round(round(unit_price) * quantity), inclusive or exclusive.
C13_ZeroRate ==
    (Returned /\ call.tax_group.total_rate = Zero) =>
        /\ line.tax_amount = Zero
        /\ line.cgst_amount = Zero
        /\ line.sgst_amount = Zero
        /\ line.taxable_value = RoundedPriceTimesQuantity
        /\ line.line_total = RoundedPriceTimesQuantity

\* An inclusive zero-rate call whose unit price is rounded before it is multiplied.
C13_Witness ==
    /\ Returned
    /\ call.tax_group.total_rate = Zero
    /\ call.tax_group.is_tax_inclusive
    /\ call.quantity >= 2
    /\ line.line_total # _round_currency(DMul(call.unit_price, D(call.quantity)))

\* C14: under NO_SPLIT, sgst_amount is 0 and cgst_amount is the whole tax_amount.
C14_NoSplit ==
    (Returned /\ call.tax_group.split_type = "NO_SPLIT") =>
        /\ line.sgst_amount = Zero
        /\ line.cgst_amount = line.tax_amount

\* A NO_SPLIT line with tax.
C14_Witness ==
    /\ Returned
    /\ call.tax_group.split_type = "NO_SPLIT"
    /\ line.tax_amount # Zero
    /\ line.sgst_amount = Zero

\* An amount of whole minor units, as a number of minor units
MinorUnits(amount) == (amount.n * 100) \div amount.d

\* C15: under GST_50_50 with tax_amount >= 0, cgst_amount is tax_amount / 2 rounded
\* half-up and sgst_amount the remainder: one minor unit less than cgst_amount when
\* tax_amount is an odd number of minor units, equal to it otherwise; 0.05 gives
\* 0.03 and 0.02.
C15_HalfSplit ==
    (/\ Returned
     /\ call.tax_group.split_type = "GST_50_50"
     /\ ~DLt(line.tax_amount, Zero)) =>
        LET t == MinorUnits(line.tax_amount)
            a == MinorUnits(line.cgst_amount)
            b == MinorUnits(line.sgst_amount)
        IN  /\ a = (t + 1) \div 2
            /\ b = t - a
            /\ (t % 2 = 1) => a = b + 1
            /\ (t % 2 = 0) => a = b
            /\ t = 5 => (line.cgst_amount = Dec(3, 100) /\ line.sgst_amount = Dec(2, 100))

\* The 50/50 split of a tax of 0.05.
C15_Witness ==
    /\ Returned
    /\ call.tax_group.split_type = "GST_50_50"
    /\ line.tax_amount = Dec(5, 100)
    /\ line.cgst_amount = Dec(3, 100)

\* C27: the consistency step of calculate_line_item never replaces line_total: on
\* every valid input taxable_value + tax_amount equals the line_total the inclusive
\* or the exclusive branch computed, with a difference of exactly 0.
C27_ReconciliationNeverTaken ==
    Returned =>
        LET branch_total ==
                IF call.tax_group.is_tax_inclusive
                THEN RoundedPriceTimesQuantity
                ELSE _round_currency(DAdd(line.taxable_value, line.tax_amount))
        IN  /\ DSub(DAdd(line.taxable_value, line.tax_amount), branch_total) = Zero
            /\ line.line_total = branch_total

\* An inclusive line of several units whose price was rounded and whose taxable
\* value was rounded.
C27_Witness ==
    /\ Returned
    /\ call.tax_group.is_tax_inclusive
    /\ call.quantity >= 3
    /\ line.tax_amount # Zero
    /\ _round_currency(call.unit_price) # call.unit_price
    /\ DMul(line.taxable_value, TaxMultiplier(call.tax_group)) # line.line_total

---------------------------------------------------------------------------
(* Claims about the bill aggregator, checked under SpecBill *)

Summarised == bill.op = "generate_bill_summary"
SummaryReturned == Summarised /\ ~bill.outcome.raised
summary == bill.outcome.value

\* The service_charge_amount step 2 computes for the call, 0 for an empty bill.
ComputedServiceCharge ==
    IF bill.line_items = <<>> THEN Zero
    ELSE ServiceChargeAmount(ItemSubtotal(bill.line_items),
                             bill.service_charge_enabled, bill.service_charge_rate)

FailedWithValueError == bill.outcome.raised /\ bill.outcome.exc = "ValueError"

\* C3: every BillSummary generate_bill_summary returns has
\* total_cgst + total_sgst = total_tax exactly.
C3_BillSplitSumsToTotalTax ==
    SummaryReturned => DAdd(summary.total_cgst, summary.total_sgst) = summary.total_tax

\* A bill with a taxed service charge whose total tax is an odd number of minor units.
C3_Witness ==
    /\ SummaryReturned
    /\ DLt(Zero, summary.service_charge_amount)
    /\ summary.total_tax # ItemTax(bill.line_items)
    /\ summary.total_cgst # summary.total_sgst

\* C4: every BillSummary generate_bill_summary returns has
\* total_amount = subtotal + service_charge_amount + total_tax exactly.
C4_TotalAmountIsSum ==
    SummaryReturned =>
        summary.total_amount =
            DAdd(DAdd(summary.subtotal, summary.service_charge_amount), summary.total_tax)

\* A bill of two lines with a service charge and tax on it.
C4_Witness ==
    /\ SummaryReturned
    /\ Len(bill.line_items) = 2
    /\ DLt(Zero, summary.service_charge_amount)
    /\ DLt(ItemTax(bill.line_items), summary.total_tax)

\* C7: with service_charge_enabled, service_charge_rate = 10, no service-charge
\* tax group and lines whose subtotal is greater than zero, generate_bill_summary
\* fails with a ValueError.
C7_EnabledWithoutTaxGroupFails ==
    (/\ Summarised
     /\ bill.service_charge_enabled
     /\ bill.service_charge_rate = D(10)
     /\ bill.service_charge_tax_group = <<>>
     /\ bill.line_items # <<>>
     /\ DLt(Zero, ItemSubtotal(bill.line_items))) => FailedWithValueError

\* C8: when the computed service_charge_amount is greater than zero and no
\* service-charge tax group is supplied, generate_bill_summary fails with a ValueError.
C8_ChargeWithoutTaxGroupFails ==
    (/\ Summarised
     /\ DLt(Zero, ComputedServiceCharge)
     /\ bill.service_charge_tax_group = <<>>) => FailedWithValueError

\* A call with a positive service charge and no tax group.
C8_Witness ==
    /\ Summarised
    /\ DLt(Zero, ComputedServiceCharge)
    /\ bill.service_charge_tax_group = <<>>
    /\ bill.outcome.raised

\* C9: when the computed service_charge_amount is greater than zero and the
\* supplied service-charge tax group is tax-inclusive, generate_bill_summary fails
\* with a ValueError, whatever the group's rate and split.
C9_InclusiveTaxGroupFails ==
    (/\ Summarised
     /\ DLt(Zero, ComputedServiceCharge)
     /\ bill.service_charge_tax_group # <<>>
     /\ bill.service_charge_tax_group[1].is_tax_inclusive) => FailedWithValueError

\* A call with a positive service charge and an inclusive tax group of valid rate.
C9_Witness ==
    /\ Summarised
    /\ DLt(Zero, ComputedServiceCharge)
    /\ bill.service_charge_tax_group # <<>>
    /\ bill.service_charge_tax_group[1].is_tax_inclusive
    /\ ~DLt(bill.service_charge_tax_group[1].total_rate, Zero)
    /\ bill.outcome.raised

LinesTaxable == DSum([i \in 1 .. Len(bill.line_items) |-> bill.line_items[i].taxable_value])
LinesTax == DSum([i \in 1 .. Len(bill.line_items) |-> bill.line_items[i].tax_amount])
LinesCgst == DSum([i \in 1 .. Len(bill.line_items) |-> bill.line_items[i].cgst_amount])

\* C16: total_tax is the sum of the lines' tax_amount plus, when
\* service_charge_amount > 0 (the tax group then being exclusive with rate >= 0),
\* round(service_charge_amount * rate / 100), and the lines' tax alone when
\* service_charge_amount is 0; lines taxed 36.00 and 10.00 on a subtotal of 300.00
\* with a 10% charge taxed at 18% give total_tax 51.40 and total_amount 381.40.
C16_ServiceChargeIsTaxed ==
    SummaryReturned =>
        /\ DLt(Zero, summary.service_charge_amount) =>
               /\ bill.service_charge_tax_group # <<>>
               /\ summary.total_tax =
                      DAdd(LinesTax,
                           _round_currency(
                               DDiv(DMul(summary.service_charge_amount,
                                         bill.service_charge_tax_group[1].total_rate),
                                    D(100))))
        /\ summary.service_charge_amount = Zero => summary.total_tax = LinesTax
        /\ (/\ LinesTaxable = D(300)
            /\ LinesTax = D(46)
            /\ bill.service_charge_enabled
            /\ bill.service_charge_rate = D(10)
            /\ bill.service_charge_tax_group # <<>>
            /\ bill.service_charge_tax_group[1].total_rate = D(18)) =>
               /\ summary.total_tax = Dec(5140, 100)
               /\ summary.total_amount = Dec(38140, 100)

\* The bill of the example: taxes 36.00 and 10.00, subtotal 300.00, 10% charge at 18%.
C16_Witness ==
    /\ SummaryReturned
    /\ Len(bill.line_items) = 2
    /\ bill.line_items[1].tax_amount = D(36)
    /\ bill.line_items[2].tax_amount = D(10)
    /\ summary.subtotal = D(300)
    /\ summary.service_charge_amount = D(30)
    /\ bill.service_charge_tax_group[1].total_rate = D(18)

C18_ServiceChargeAmount ==
    SummaryReturned =>
        summary.service_charge_amount =
            IF bill.service_charge_enabled /\ DLt(Zero, bill.service_charge_rate)
            THEN _round_currency(
                     DDiv(DMul(summary.subtotal, bill.service_charge_rate), D(100)))
            ELSE Zero

\* A service charge that had to be rounded, on a bill with tax.
C18_Witness ==
    /\ SummaryReturned
    /\ bill.service_charge_enabled
    /\ DLt(Zero, summary.service_charge_amount)
    /\ LinesTax # Zero
    /\ summary.service_charge_amount #
           DDiv(DMul(summary.subtotal, bill.service_charge_rate), D(100))

\* C19: for a non-empty list of lines, subtotal is the rounded sum of the lines'
\* taxable_value: no line tax, service charge or service-charge tax is in it.
C19_SubtotalIsTaxableSum ==
    (SummaryReturned /\ bill.line_items # <<>>) =>
        summary.subtotal = _round_currency(LinesTaxable)

\* A bill with line tax, a service charge and tax on the service charge.
C19_Witness ==
    /\ SummaryReturned
    /\ bill.line_items # <<>>
    /\ LinesTax # Zero
    /\ DLt(Zero, summary.service_charge_amount)
    /\ DLt(LinesTax, summary.total_tax)

LinesUnsplit ==
    \A i \in DOMAIN bill.line_items :
        /\ bill.line_items[i].sgst_amount = Zero
        /\ bill.line_items[i].cgst_amount = bill.line_items[i].tax_amount

---------------------------------------------------------------------------
(* Claims about the engine as a whole, checked under SpecEngine *)

SameArguments(a, b) == a.op = b.op /\ a.args = b.args

---------------------------------------------------------------------------
(* Claims about handle_database_error, checked under SpecRetry *)

\* The invocations of the wrapped function, and the waits, in order
Invocations == SelectSeq(wrapper.events, LAMBDA e : e.kind = "invoke")
Waits == SelectSeq(wrapper.events, LAMBDA e : e.kind = "sleep")

\* The message, in lower case, holds one of the words
Mentions(message, words) ==
    \E fragment \in message :
        \/ fragment \in words
        \/ fragment = "Connection" /\ "connection" \in words
        \/ fragment = "Resource already exists" /\ "already exists" \in words
        \/ fragment = "RLS" /\ "rls" \in words

IsUnique(message) == Mentions(message, {"unique", "duplicate", "already exists"})
IsForeignKey(message) ==
    Mentions(message, {"foreign key", "violates foreign key", "fk_"})
IsRls(message) ==
    Mentions(message, {"policy", "row-level security", "rls", "insufficient_privilege"})
HasConnectionKeyword(message) ==
    Mentions(message, {"connection", "timeout", "network", "unavailable", "refused"})

\* An invocation that failed with a connection-class error: a connection keyword,
\* and no keyword of the three classes tried before it
ConnectionFailure(e) ==
    /\ e.raised
    /\ HasConnectionKeyword(e.message)
    /\ ~IsUnique(e.message)
    /\ ~IsForeignKey(e.message)
    /\ ~IsRls(e.message)

Finished == wrapper.pc = "done"
Raised(status_code) ==
    /\ Finished
    /\ wrapper.outcome[1].raised
    /\ wrapper.outcome[1].exc = "HTTPException"
    /\ wrapper.outcome[1].status_code = status_code

\* C24: a function that fails with a connection-class error is invoked again until
\* it succeeds or has been invoked 3 times: every invocation but the last failed
\* with a connection-class error, the first success ends the call with the
\* function's result, a connection failure before the 3rd invocation does not end
\* the call, and the 3rd consecutive one ends it with HTTPException 503.
C24_RetryProtocol ==
    LET n == Len(Invocations)
    IN  /\ n <= 3
        /\ \A i \in 1 .. n - 1 : ConnectionFailure(Invocations[i])
        /\ (n > 0 /\ ~Invocations[n].raised) =>
               (Finished /\ wrapper.outcome = <<[raised |-> FALSE, value |-> "result"]>>)
        /\ (n > 0 /\ ConnectionFailure(Invocations[n]) /\ n < 3) => ~Finished
        /\ (n = 3 /\ ConnectionFailure(Invocations[n])) => Raised(503)
        /\ Raised(503) => (n = 3 /\ ConnectionFailure(Invocations[n]))
        /\ Finished => n > 0

\* Two connection failures, then the third invocation succeeds.
C24_Witness ==
    /\ Finished
    /\ Len(Invocations) = 3
    /\ ConnectionFailure(Invocations[1])
    /\ ConnectionFailure(Invocations[2])
    /\ ~Invocations[3].raised
    /\ ~wrapper.outcome[1].raised

\* C25: before the k-th retry the wrapper waits 2^k seconds: the waits are 2, then
\* 4, each between a failed invocation and the next one, and none follows the
\* last invocation; three connection failures give invoke, wait 2, invoke, wait 4,
\* invoke.
C25_ExponentialBackoff ==
    LET events == wrapper.events
    IN  /\ Len(Waits) <= 2
        /\ \A k \in 1 .. Len(Waits) : Waits[k].seconds = 2 ^ k
        /\ \A i \in 1 .. Len(events) :
               IF i % 2 = 1
               THEN events[i].kind = "invoke"
               ELSE events[i].kind = "sleep" /\ ConnectionFailure(events[i - 1])
        /\ wrapper.pc = "sleep" =>
               /\ ConnectionFailure(events[Len(events)])
               /\ wrapper.wait_time = 2 ^ Len(Invocations)
        /\ Finished => events[Len(events)].kind = "invoke"
        /\ (/\ Finished
            /\ Len(Invocations) = 3
            /\ ConnectionFailure(Invocations[3])) =>
               /\ Len(events) = 5
               /\ events[2] = [kind |-> "sleep", seconds |-> 2]
               /\ events[4] = [kind |-> "sleep", seconds |-> 4]

\* A function that failed three times with a connection error.
C25_Witness ==
    /\ Raised(503)
    /\ Len(Invocations) = 3
    /\ Len(Waits) = 2
    /\ Waits[1].seconds = 2
    /\ Waits[2].seconds = 4
    /\ wrapper.events[5].kind = "invoke"

\* C26: a unique-constraint, foreign-key, RLS-policy or general error of the
\* function ends the call at once with HTTPException 409, 400, 403 or 500, the
\* classes being tried in that order and before the connection keywords; when it is
\* the first invocation that raises it, the function has been invoked exactly once.
C26_OtherErrorsAreNotRetried ==
    LET n == Len(Invocations)
        message == Invocations[n].message
    IN  (n > 0 /\ Invocations[n].raised /\ ~ConnectionFailure(Invocations[n])) =>
            /\ Finished
            /\ wrapper.events[Len(wrapper.events)] = Invocations[n]
            /\ Raised(IF IsUnique(message) THEN 409
                      ELSE IF IsForeignKey(message) THEN 400
                      ELSE IF IsRls(message) THEN 403
                      ELSE 500)
            /\ Invocations[1] = Invocations[n] => n = 1

\* A first invocation whose error names a foreign key and a timeout: 400, no retry.
C26_Witness ==
    /\ Raised(400)
    /\ Len(wrapper.events) = 1
    /\ IsForeignKey(wrapper.events[1].message)
    /\ HasConnectionKeyword(wrapper.events[1].message)

---------------------------------------------------------------------------
(* Claims about kept bills, checked under SpecHistory *)

GotBill == response.op = "get_bill" /\ ~response.outcome.raised

\* The figures a returned get_bill shows are those the rows of the bill hold: the totals
\* of the row of bills, CGST and SGST as the halves of its tax_amount, and item by item
\* the figures of the rows of bill_items inserted for the bill so far
ShowsPersisted ==
    LET shown == response.outcome.value
        kept == bills[response.bill_id]
        rows == RowsOf(response.bill_id)
    IN  /\ shown.subtotal = kept.subtotal
        /\ shown.tax_amount = kept.tax_amount
        /\ shown.total_amount = kept.total_amount
        /\ shown.cgst = _round_currency(DDiv(kept.tax_amount, D(2)))
        /\ DAdd(shown.cgst, shown.sgst) = kept.tax_amount
        /\ Len(shown.items) <= Len(rows)
        /\ \A i \in DOMAIN shown.items :
               /\ shown.items[i].quantity = rows[i].quantity
               /\ shown.items[i].unit_price = rows[i].selling_price
               /\ shown.items[i].product_name = rows[i].product_name_snapshot
               /\ shown.items[i].tax_rate = rows[i].tax_rate_snapshot
               /\ shown.items[i].is_tax_inclusive = rows[i].is_tax_inclusive_snapshot
               /\ shown.items[i].line_subtotal = rows[i].taxable_value
               /\ shown.items[i].tax_amount = rows[i].tax_amount
               /\ shown.items[i].cgst_amount = rows[i].cgst_amount
               /\ shown.items[i].sgst_amount = rows[i].sgst_amount
               /\ shown.items[i].total_price = rows[i].line_total

\* C22: a persisted bill is an immutable snapshot: whatever the products and tax groups
\* have become since, and whenever the bill was read, the figures a returned get_bill shows
\* (per item taxable value, tax, CGST/SGST and line total, and the bill's totals) are those
\* the bill's rows of bills and bill_items hold now, so no catalogue change alters them.
C22_HistoricalBillsAreSnapshots == GotBill => ShowsPersisted

\* get_bill has returned a bill with an item whose product has since been renamed,
\* repriced and deactivated and whose tax group has since changed rate, split and
\* inclusivity, and it returns the same now
C22_Witness ==
    /\ GotBill
    /\ response.outcome = get_bill(response.bill_id)
    /\ response.outcome.value.items # <<>>
    /\ LET row == RowsOf(response.bill_id)[1]
           product == products[row.product_id]
           tax_group == tax_groups[product.tax_group_id]
       IN  /\ row.product_name_snapshot # product.name
           /\ row.selling_price # product.selling_price
           /\ ~product.is_active
           /\ row.tax_rate_snapshot # tax_group.total_rate
           /\ row.is_tax_inclusive_snapshot # tax_group.is_tax_inclusive
           /\ tax_group.split_type = "NO_SPLIT" /\ row.cgst_amount # Zero
           /\ response.outcome.value.items[1].tax_amount = row.tax_amount
           /\ response.outcome.value.items[1].tax_rate = row.tax_rate_snapshot

---------------------------------------------------------------------------
(* Claims about create_bill, checked under SpecBilling *)

\* create_bill prices the item: its product and the product's tax group are found and active
Billable(item) ==
    /\ item.product_id \in DOMAIN products
    /\ products[item.product_id].is_active
    /\ products[item.product_id].tax_group_id \in DOMAIN tax_groups
    /\ tax_groups[products[item.product_id].tax_group_id].is_active

\* The unit price create_bill prices the item at
PricedAt(item) ==
    IF DLt(Zero, item.unit_price) THEN item.unit_price ELSE products[item.product_id].selling_price

\* The LineResult of the item
LineResultOf(item) ==
    calculate_line_item(PricedAt(item), item.quantity,
                        tax_groups[products[item.product_id].tax_group_id]).value

\* C23: a create_bill on items that can all be priced persists one bill and, for each
\* requested item in order, one bill item carrying the item's quantity and unit price and
\* the figures of the item's own LineResult; the persisted items' taxable_value and
\* tax_amount sum to the bill's persisted subtotal and tax_amount.
C23_PersistedItemsCarryTheirLineResult ==
    [][(/\ request' # request
        /\ request'.op = "create_bill"
        /\ \A i \in DOMAIN request'.items : Billable(request'.items[i]))
       => /\ ~request'.outcome.raised
          /\ Len(bills') = Len(bills) + 1
          /\ Len(bill_items') = Len(bill_items) + Len(request'.items)
          /\ LET items == request'.items
                 rows == SubSeq(bill_items', Len(bill_items) + 1, Len(bill_items'))
                 kept == bills'[Len(bills')]
             IN  /\ \A i \in DOMAIN items :
                        /\ rows[i].quantity = items[i].quantity
                        /\ rows[i].selling_price = PricedAt(items[i])
                        /\ rows[i].taxable_value = LineResultOf(items[i]).taxable_value
                        /\ rows[i].tax_amount = LineResultOf(items[i]).tax_amount
                        /\ rows[i].cgst_amount = LineResultOf(items[i]).cgst_amount
                        /\ rows[i].sgst_amount = LineResultOf(items[i]).sgst_amount
                        /\ rows[i].line_total = LineResultOf(items[i]).line_total
                 /\ DSum([i \in DOMAIN rows |-> rows[i].taxable_value]) = kept.subtotal
                 /\ DSum([i \in DOMAIN rows |-> rows[i].tax_amount]) = kept.tax_amount]_vars

---------------------------------------------------------------------------
(* Claims about onboarding, checked under SpecOnboarding *)

\* The steps of complete_onboarding that follow the creation of the business
StepsAfterBusiness == {"create_configuration", "create_theme", "user_update"}

---------------------------------------------------------------------------
(* Claims about the inventory ledger, checked under SpecInventory *)

\* C30: stock never goes negative: after every add_stock and deduct_stock call, with any
\* integer quantity, the stock of every product (the sum of its ledger quantity_change
\* entries) is >= 0, and a deduct_stock on a product for more than its stock is rejected
\* with the Insufficient stock error and writes no ledger entry.
C30_StockNeverNegative ==
    [][/\ \A product_id \in DOMAIN products : StockOf(ledger', product_id, "U1") >= 0
       /\ (/\ Len(movements') = Len(movements) + 1
           /\ movements'[Len(movements')].op = "deduct_stock"
           /\ movements'[Len(movements')].product_id \in DOMAIN products
           /\ movements'[Len(movements')].quantity
                  > StockOf(ledger, movements'[Len(movements')].product_id, "U1"))
          => /\ movements'[Len(movements')].outcome = Raise("ValueError", "Insufficient stock")
             /\ ledger' = ledger]_vars

====
